---- MODULE Spec2Model ----
(***************************************************************************)
(* Model of city-cyber/Cyber_Test:                                         *)
(*   Homework14_Final/final_task.py   fetch_vulners_data,                  *)
(*       load_suricata_events, analyze, simulate_response                  *)
(*   Homework13/homework13_mock_api.py   MockHandler.do_GET, call_api      *)
(*                                                                         *)
(* Optional values (Python None / pandas NaN) are sequences of length at   *)
(* most one: <<>> is None, <<v>> is the value v.  An absent address is the *)
(* string None.  CVSS scores are kept in tenths (8.0 is 80).               *)
(***************************************************************************)
EXTENDS Integers, Sequences, FiniteSets, TLC

VARIABLES
    pc,            \* position of main() in final_task.py
    file,          \* lines of SURICATA_FILE
    suricata_df,   \* DataFrame returned by load_suricata_events
    raised,        \* exception that escaped, "" when none
    api_key,       \* environment variable VULNERS_API_KEY
    remote,        \* what the Vulners endpoint answers
    local_file,    \* state of VULNERS_FALLBACK_FILE
    vulns,         \* first component of fetch_vulners_data's result
    source_label,  \* second component of fetch_vulners_data's result
    result,        \* dict returned by analyze
    actions,       \* list returned by simulate_response
    printed,       \* lines simulate_response wrote to stdout
    api_pc,        \* position of call_api in homework13_mock_api.py
    attempts,      \* iterations of call_api's loop started so far
    last_err,      \* call_api's last_err
    served         \* status of the last answer MockHandler.do_GET sent

vars == <<pc, file, suricata_df, raised, api_key, remote, local_file, vulns,
          source_label, result, actions, printed, api_pc, attempts, last_err,
          served>>

(***************************************************************************)
(* Bounds of the model                                                     *)
(***************************************************************************)
MaxLines == 4
MaxSpikeLines == 7
MaxDocs == 2

(***************************************************************************)
(* Program constants                                                       *)
(***************************************************************************)
CVSS_THRESHOLD == 80
DNS_SPIKE_THRESHOLD == 6
ThreatScore == 5
MissingSeverity == 99
HighSeverityMax == 2
HighSeverityWeight == 5
AlertWeight == 2
DnsSpikeWeight == 3
Retries == 10

None == "None"

\* Source addresses of the modelled events, in the order groupby sorts keys.
AddrOrder == <<"10.0.0.5", "10.0.0.9", "10.0.1.7">>

RECURSIVE SumSeq(_)
SumSeq(s) == IF s = <<>> THEN 0 ELSE Head(s) + SumSeq(Tail(s))

(***************************************************************************)
(* load_suricata_events                                                    *)
(***************************************************************************)
Evt(t, a, s) == [kind |-> "event", event_type |-> t, src_ip |-> a, severity |-> s]
Blank == [kind |-> "blank", event_type |-> None, src_ip |-> None, severity |-> <<>>]
BadJson == [kind |-> "badjson", event_type |-> None, src_ip |-> None, severity |-> <<>>]
NonObject == [kind |-> "nonobject", event_type |-> None, src_ip |-> None, severity |-> <<>>]

\* The lines an event source is built from.
Lines ==
    { Evt("alert", "10.0.0.5", <<1>>), Evt("alert", "10.0.0.5", <<3>>),
      Evt("alert", "10.0.0.9", <<2>>), Evt("alert", "10.0.0.9", <<>>),
      Evt("alert", None, <<1>>),
      Evt("dns", "10.0.0.5", <<>>), Evt("dns", "10.0.0.9", <<>>),
      Evt("dns", None, <<>>),
      Evt("flow", "10.0.1.7", <<>>),
      Blank, BadJson, NonObject }

\* The lines of a source with a DNS burst.
SpikeLines ==
    { Evt("dns", "10.0.0.5", <<>>), Evt("dns", "10.0.0.9", <<>>),
      Evt("alert", "10.0.0.5", <<1>>), Evt("alert", "10.0.0.5", <<4>>) }

EventColumns == {"timestamp", "event_type", "src_ip", "dest_ip", "severity",
                 "signature", "dns_rrname"}

Row(line) == [event_type |-> line.event_type, src_ip |-> line.src_ip,
              severity |-> line.severity]

\* What parsing one stripped, non-blank line raises ("" when it parses).
ParseError(line) ==
    CASE line.kind = "badjson" -> "JSONDecodeError"
      [] line.kind = "nonobject" -> "AttributeError"
      [] OTHER -> ""

\* The loop over the lines: rows collected so far, and the exception that
\* ended the loop.
RECURSIVE ReadLines(_, _)
ReadLines(lines, rows) ==
    IF lines = <<>> THEN [rows |-> rows, err |-> ""]
    ELSE IF Head(lines).kind = "blank" THEN ReadLines(Tail(lines), rows)
    ELSE IF ParseError(Head(lines)) # "" THEN [rows |-> rows, err |-> ParseError(Head(lines))]
    ELSE ReadLines(Tail(lines), Append(rows, Row(Head(lines))))

\* pd.DataFrame(rows): a frame built from no rows has no columns.
DataFrame(rows) ==
    [columns |-> IF rows = <<>> THEN {} ELSE EventColumns, rows |-> rows]

EmptyFrame == DataFrame(<<>>)

(***************************************************************************)
(* analyze                                                                 *)
(***************************************************************************)
Fillna(x, v) == IF x = <<>> THEN v ELSE x[1]

\* fillna(0) in place of fillna(99): an alert without severity counts as high.
IsHighSeverityMissingZero(row) == Fillna(row.severity, 0) <= HighSeverityMax

IsHighSeverity(row) == Fillna(row.severity, MissingSeverity) <= HighSeverityMax

OfType(rows, t) == SelectSeq(rows, LAMBDA r : r.event_type = t)

\* rows.groupby("src_ip").size(): one entry per key, keys sorted, rows whose
\* key is missing dropped.
GroupBySize(rows) ==
    LET keys == SelectSeq(AddrOrder, LAMBDA a : \E i \in 1..Len(rows) : rows[i].src_ip = a)
    IN  [i \in 1..Len(keys) |->
            [key |-> keys[i],
             size |-> Cardinality({j \in 1..Len(rows) : rows[j].src_ip = keys[i]})]]

Keys(series) == [i \in 1..Len(series) |-> series[i].key]

InSeq(x, s) == \E i \in 1..Len(s) : s[i] = x

\* join on the first index only: addresses without alerts are lost.
UnionIndexLeft(index, others) == index

\* Index of pd.concat(..., axis=1): the first index, then the labels of the
\* others that it lacks, in order of appearance.
RECURSIVE UnionIndex(_, _)
UnionIndex(index, others) ==
    IF others = <<>> THEN index
    ELSE UnionIndex(IF InSeq(Head(others), index) THEN index
                    ELSE Append(index, Head(others)), Tail(others))

\* A column of the concatenated frame after fillna(0).astype(int).
CountOf(series, key) ==
    SumSeq([i \in 1..Len(series) |-> IF series[i].key = key THEN series[i].size ELSE 0])

\* > in place of >= in the spike test.
RiskScoreStrict(high, alerts, dns) ==
    high * HighSeverityWeight + alerts * AlertWeight
        + (IF dns > DNS_SPIKE_THRESHOLD THEN 1 ELSE 0) * DnsSpikeWeight

RiskScore(high, alerts, dns) ==
    high * HighSeverityWeight + alerts * AlertWeight
        + (IF dns >= DNS_SPIKE_THRESHOLD THEN 1 ELSE 0) * DnsSpikeWeight

\* The frame `suspicious` with its risk_score column, before sort_values.
Suspicious(alerts_rows, dns_rows) ==
    LET alert_counts == GroupBySize(alerts_rows)
        high_severity_counts == GroupBySize(SelectSeq(alerts_rows, IsHighSeverity))
        dns_counts == GroupBySize(dns_rows)
        index == UnionIndex(Keys(alert_counts),
                            Keys(high_severity_counts) \o Keys(dns_counts))
    IN  [i \in 1..Len(index) |->
            LET a == CountOf(alert_counts, index[i])
                h == CountOf(high_severity_counts, index[i])
                d == CountOf(dns_counts, index[i])
            IN  [src_ip |-> index[i], alert_count |-> a,
                 high_severity_alert_count |-> h, dns_query_count |-> d,
                 risk_score |-> RiskScore(h, a, d)]]

NonIncreasing(tbl) ==
    \A i \in 1..Len(tbl) - 1 : tbl[i].risk_score >= tbl[i + 1].risk_score

Perms(n) == {p \in [1..n -> 1..n] : \A i, j \in 1..n : p[i] = p[j] => i = j}

\* sort_values("risk_score", ascending=False) with the default kind
\* ("quicksort"), which is not a stable sort: every ordering of the rows by
\* non-increasing risk_score is an outcome.
SortValues(tbl) ==
    {s \in {[i \in 1..Len(tbl) |-> tbl[p[i]]] : p \in Perms(Len(tbl))} : NonIncreasing(s)}

IsThreat(row) == row.risk_score >= ThreatScore

Cvss(v) == Fillna(v.cvss, 0)

HighCvss(vs) == SelectSeq(vs, LAMBDA v : Cvss(v) >= CVSS_THRESHOLD)

NoResult == [high_cvss |-> <<>>, alerts_df |-> <<>>, suspicious |-> <<>>,
             threats |-> <<>>,
             stats |-> [total_vulns |-> 0, high_cvss_count |-> 0,
                        suricata_events |-> 0, alert_events |-> 0,
                        dns_events |-> 0, threat_ips |-> 0]]

AnalyzeResult(vs, df, sorted) ==
    LET alerts_df == OfType(df.rows, "alert")
        dns_df == OfType(df.rows, "dns")
        threats == SelectSeq(sorted, IsThreat)
    IN  [high_cvss |-> HighCvss(vs), alerts_df |-> alerts_df,
         suspicious |-> sorted, threats |-> threats,
         stats |-> [total_vulns |-> Len(vs), high_cvss_count |-> Len(HighCvss(vs)),
                    suricata_events |-> Len(df.rows), alert_events |-> Len(alerts_df),
                    dns_events |-> Len(dns_df), threat_ips |-> Len(threats)]]

(***************************************************************************)
(* simulate_response                                                       *)
(***************************************************************************)
\* The notification without the score.
NotifyMsgNoScore(src_ip, score) == <<"[ALERT] Threat detected from ", src_ip, ".">>

NotifyMsg(src_ip, score) ==
    <<"[ALERT] Threat detected from ", src_ip, ". Risk score=", ToString(score), ".">>

BlockMsg(src_ip, score) ==
    <<"[ACTION] SIMULATED BLOCK: ", src_ip, " (risk_score=", ToString(score), ")">>

Decision(row) ==
    [src_ip |-> row.src_ip, risk_score |-> row.risk_score,
     simulated_block |-> TRUE,
     notification |-> NotifyMsg(row.src_ip, row.risk_score)]

\* What one iteration of the loop prints.
RowOutput(row, telegram_chat, alert_email) ==
    <<BlockMsg(row.src_ip, row.risk_score), NotifyMsg(row.src_ip, row.risk_score)>>
    \o (IF telegram_chat # ""
        THEN << <<"[NOTIFY] Telegram message to chat ", telegram_chat, ": ">>
                \o NotifyMsg(row.src_ip, row.risk_score) >>
        ELSE <<>>)
    \o (IF alert_email # ""
        THEN << <<"[NOTIFY] Email to ", alert_email, ": ">>
                \o NotifyMsg(row.src_ip, row.risk_score) >>
        ELSE <<>>)

RECURSIVE Output(_, _, _)
Output(rows, telegram_chat, alert_email) ==
    IF rows = <<>> THEN <<>>
    ELSE RowOutput(Head(rows), telegram_chat, alert_email)
         \o Output(Tail(rows), telegram_chat, alert_email)

Decisions(threats_df) == [i \in 1..Len(threats_df) |-> Decision(threats_df[i])]

ChatIds == {"", "4242"}
Emails == {"", "soc@example.org"}

(***************************************************************************)
(* fetch_vulners_data                                                      *)
(***************************************************************************)
Vuln(id, cvss) == [id |-> id, cvss |-> cvss]

\* Content of the local fallback file.
LocalSample == <<Vuln("CVE-A", <<91>>), Vuln("CVE-B", <<70>>)>>

\* A score of a document: a number (in tenths) or a text float() rejects.
Number(tenths) == <<[numeric |-> TRUE, tenths |-> tenths]>>
Text == <<[numeric |-> FALSE, tenths |-> 0]>>

\* A document of the search result.  shape: "dict" or "string"; cvss and
\* cvss3: "absent", "null", "object" or "number"; score: cvss.score;
\* base: cvss3.cvssV3.baseScore.
Doc(shape, id, cvss, score, cvss3, base) ==
    [shape |-> shape, id |-> id, cvss |-> cvss, score |-> score,
     cvss3 |-> cvss3, base |-> base]

DocScored == Doc("dict", <<"CVE-1">>, "object", Number(91), "absent", <<>>)
DocV3 == Doc("dict", <<"CVE-2">>, "null", <<>>, "object", Number(70))
DocUnscored == Doc("dict", <<>>, "absent", <<>>, "absent", <<>>)
DocNullV3 == Doc("dict", <<"CVE-4">>, "object", <<>>, "null", <<>>)
DocTextScore == Doc("dict", <<"CVE-5">>, "object", Text, "absent", <<>>)
DocNumberCvss == Doc("dict", <<"CVE-6">>, "number", <<>>, "absent", <<>>)
DocString == Doc("string", <<>>, "absent", <<>>, "absent", <<>>)

Docs == {DocScored, DocV3, DocUnscored, DocNullV3, DocTextScore, DocNumberCvss,
         DocString}

DocLists == UNION {[1..n -> Docs] : n \in 0..MaxDocs}

\* What the endpoint does with the request.
Remotes ==
    {[kind |-> k, docs |-> <<>>] :
        k \in {"connection_error", "timeout", "http_error", "not_json",
               "not_dict", "data_null", "no_search"}}
    \cup {[kind |-> "docs", docs |-> d] : d \in DocLists}

NoRemote == [kind |-> "none", docs |-> <<>>]

ApiKeys == {"", "  ", "k3y"}

\* str.strip() on the modelled keys.
Strip(s) == IF s = "  " THEN "" ELSE s

LocalFiles ==
    {[state |-> "ok", data |-> LocalSample], [state |-> "ok", data |-> <<>>],
     [state |-> "missing", data |-> <<>>], [state |-> "corrupt", data |-> <<>>]}

\* One iteration of the loop over docs: the record appended, or the
\* exception raised.
Normalise(doc) ==
    IF doc.shape # "dict" \/ doc.cvss = "number"
    THEN [err |-> "AttributeError", vuln |-> Vuln("", <<>>)]
    ELSE
        LET first == IF doc.cvss = "object" THEN doc.score ELSE <<>>
            score == IF first # <<>> THEN first
                     ELSE IF doc.cvss3 = "object" THEN doc.base ELSE <<>>
            id == IF doc.id = <<>> THEN "unknown" ELSE doc.id[1]
        IN  IF first = <<>> /\ doc.cvss3 \in {"null", "number"}
            THEN [err |-> "AttributeError", vuln |-> Vuln("", <<>>)]
            ELSE IF score # <<>> /\ ~score[1].numeric
            THEN [err |-> "ValueError", vuln |-> Vuln("", <<>>)]
            ELSE [err |-> "",
                  vuln |-> Vuln(id, IF score = <<>> THEN <<0>> ELSE <<score[1].tenths>>)]

RECURSIVE NormaliseAll(_, _)
NormaliseAll(docs, acc) ==
    IF docs = <<>> THEN [err |-> "", vulns |-> acc]
    ELSE IF Normalise(Head(docs)).err # ""
    THEN [err |-> Normalise(Head(docs)).err, vulns |-> <<>>]
    ELSE NormaliseAll(Tail(docs), Append(acc, Normalise(Head(docs)).vuln))

\* The body of the try block: the exception it raises and the list vulns.
TryRemote(r) ==
    CASE r.kind \in {"connection_error", "timeout"} -> [err |-> "RequestException", vulns |-> <<>>]
      [] r.kind = "http_error" -> [err |-> "HTTPError", vulns |-> <<>>]
      [] r.kind = "not_json" -> [err |-> "JSONDecodeError", vulns |-> <<>>]
      [] r.kind \in {"not_dict", "data_null"} -> [err |-> "AttributeError", vulns |-> <<>>]
      [] r.kind = "no_search" -> [err |-> "", vulns |-> <<>>]
      [] OTHER -> NormaliseAll(r.docs, <<>>)

\* Without the test `if vulns`: an empty result is returned as remote data.
RemoteReturnsEmpty(t) == t.err = ""

\* Whether the remote branch returns: the try block ended without an
\* exception and with a non-empty list.
RemoteReturns(t) == t.err = "" /\ t.vulns # <<>>

ReadLocal(f) ==
    CASE f.state = "ok" -> [raised |-> "", vulns |-> f.data, label |-> "local_vulners_sample"]
      [] f.state = "missing" -> [raised |-> "FileNotFoundError", vulns |-> <<>>, label |-> ""]
      [] OTHER -> [raised |-> "JSONDecodeError", vulns |-> <<>>, label |-> ""]

FetchVulnersData(key, r, f) ==
    IF Strip(key) # "" /\ RemoteReturns(TryRemote(r))
    THEN [raised |-> "", vulns |-> TryRemote(r).vulns, label |-> "vulners_api"]
    ELSE ReadLocal(f)

(***************************************************************************)
(* homework13_mock_api.py                                                  *)
(***************************************************************************)
API_PATH == "/api/v1/security/status"
API_KEY == "demo-key"

Paths == {API_PATH, "/", "/api/v1/security"}
ClientKeys == {API_KEY, "wrong-key", None}

\* MockHandler.do_GET: the status code of the answer.
DoGET(path, client_key) ==
    IF path # API_PATH THEN 404
    ELSE IF client_key # API_KEY THEN 401
    ELSE 200

\* What happens to one request of call_api: the mock server answers it, some
\* server answers with an HTTP error status, the connection fails, the body
\* is no JSON, or reading the body times out.
Answers == {"mock", "http_401", "http_404", "url_error", "bad_json", "read_timeout"}

\* The exception one iteration of the loop ends with ("" when it returns).
AttemptError(answer) ==
    CASE answer = "mock" ->
            LET status == DoGET(API_PATH, API_KEY)
            IN  IF status = 200 THEN "" ELSE "HTTPError " \o ToString(status)
      [] answer = "http_401" -> "HTTPError 401"
      [] answer = "http_404" -> "HTTPError 404"
      [] answer = "url_error" -> "URLError"
      [] answer = "bad_json" -> "JSONDecodeError"
      [] OTHER -> "TimeoutError"

\* except (error.URLError, error.HTTPError)
Caught(err) == err \in {"URLError", "HTTPError 401", "HTTPError 404"}

\* range(11): one more iteration.
HasNextInclusive(n) == n <= Retries

\* for _ in range(10): whether an iteration follows n iterations.
HasNext(n) == n < Retries

ApiIdle ==
    /\ api_pc = "idle" /\ attempts = 0 /\ last_err = "" /\ served = 0

FetchIdle ==
    /\ api_key = "" /\ remote = NoRemote
    /\ local_file = [state |-> "ok", data |-> LocalSample]

EventsIdle ==
    /\ file = <<>>
    /\ suricata_df = EmptyFrame
    /\ result = NoResult
    /\ actions = <<>>
    /\ printed = <<>>

\* main() after fetch_vulners_data returned the local sample.
Init ==
    /\ pc = "input"
    /\ raised = ""
    /\ vulns = LocalSample
    /\ source_label = "local_vulners_sample"
    /\ EventsIdle
    /\ FetchIdle
    /\ ApiIdle

\* main() before fetch_vulners_data, in any environment.
InitVulners ==
    /\ pc = "start"
    /\ raised = ""
    /\ api_key \in ApiKeys
    /\ remote \in Remotes
    /\ local_file \in LocalFiles
    /\ vulns = <<>>
    /\ source_label = ""
    /\ EventsIdle
    /\ ApiIdle

\* homework13_mock_api.py with the mock server started, entering call_api.
InitApi ==
    /\ pc = "off"
    /\ raised = ""
    /\ vulns = <<>>
    /\ source_label = ""
    /\ EventsIdle
    /\ FetchIdle
    /\ api_pc = "loop" /\ attempts = 0 /\ last_err = "" /\ served = 0

\* The environment writes one more line to the event source.
AppendLine(line) ==
    /\ pc = "input"
    /\ Len(file) < MaxLines
    /\ file' = Append(file, line)
    /\ UNCHANGED <<pc, suricata_df, raised, api_key, remote, local_file, vulns,
                   source_label, result, actions, printed, api_pc, attempts,
                   last_err, served>>

AppendSpikeLine(line) ==
    /\ pc = "input"
    /\ Len(file) < MaxSpikeLines
    /\ file' = Append(file, line)
    /\ UNCHANGED <<pc, suricata_df, raised, api_key, remote, local_file, vulns,
                   source_label, result, actions, printed, api_pc, attempts,
                   last_err, served>>

LoadSuricataEvents ==
    /\ pc = "input"
    /\ LET r == ReadLines(file, <<>>)
       IN  IF r.err # ""
           THEN /\ pc' = "load_raised"
                /\ raised' = r.err
                /\ UNCHANGED suricata_df
           ELSE /\ pc' = "loaded"
                /\ suricata_df' = DataFrame(r.rows)
                /\ UNCHANGED raised
    /\ UNCHANGED <<file, api_key, remote, local_file, vulns, source_label,
                   result, actions, printed, api_pc, attempts, last_err, served>>

Analyze ==
    /\ pc = "loaded"
    /\ IF "event_type" \notin suricata_df.columns
       THEN /\ pc' = "analyze_raised"
            /\ raised' = "KeyError"
            /\ UNCHANGED result
       ELSE /\ pc' = "analyzed"
            /\ \E sorted \in SortValues(Suspicious(OfType(suricata_df.rows, "alert"),
                                                   OfType(suricata_df.rows, "dns"))) :
                   result' = AnalyzeResult(vulns, suricata_df, sorted)
            /\ UNCHANGED raised
    /\ UNCHANGED <<file, suricata_df, api_key, remote, local_file, vulns,
                   source_label, actions, printed, api_pc, attempts, last_err,
                   served>>

SimulateResponse(telegram_chat, alert_email) ==
    /\ pc = "analyzed"
    /\ pc' = "responded"
    /\ IF result.threats = <<>>
       THEN /\ actions' = <<>>
            /\ printed' = << <<"[INFO] Threats not detected.">> >>
       ELSE /\ actions' = Decisions(result.threats)
            /\ printed' = Output(result.threats, telegram_chat, alert_email)
    /\ UNCHANGED <<file, suricata_df, raised, api_key, remote, local_file,
                   vulns, source_label, result, api_pc, attempts, last_err,
                   served>>

Pipeline ==
    \/ LoadSuricataEvents
    \/ Analyze
    \/ \E c \in ChatIds, e \in Emails : SimulateResponse(c, e)

Next ==
    \/ \E line \in Lines : AppendLine(line)
    \/ Pipeline

Spec == Init /\ [][Next]_vars

NextSpike ==
    \/ \E line \in SpikeLines : AppendSpikeLine(line)
    \/ Pipeline

SpecSpike == Init /\ [][NextSpike]_vars

(***************************************************************************)
(* main() of final_task.py up to the return of fetch_vulners_data          *)
(***************************************************************************)
Fetch ==
    /\ pc = "start"
    /\ LET r == FetchVulnersData(api_key, remote, local_file)
       IN  /\ pc' = IF r.raised = "" THEN "fetched" ELSE "fetch_raised"
           /\ raised' = r.raised
           /\ vulns' = r.vulns
           /\ source_label' = r.label
    /\ UNCHANGED <<file, suricata_df, api_key, remote, local_file, result,
                   actions, printed, api_pc, attempts, last_err, served>>

NextVulners == Fetch

SpecVulners == InitVulners /\ [][NextVulners]_vars

(***************************************************************************)
(* call_api and the mock server                                            *)
(***************************************************************************)
ApiRunning == api_pc \in {"loop", "sleep"}

\* The mock server answers a request of some client.
HandleGET(path, client_key) ==
    /\ ApiRunning
    /\ served' = DoGET(path, client_key)
    /\ UNCHANGED <<pc, file, suricata_df, raised, api_key, remote, local_file,
                   vulns, source_label, result, actions, printed, api_pc,
                   attempts, last_err>>

\* One iteration of the loop, up to the return, the sleep or the exception
\* that escapes.
CallApiAttempt(answer) ==
    /\ api_pc = "loop"
    /\ attempts' = attempts + 1
    /\ LET err == AttemptError(answer)
       IN  IF err = ""
           THEN /\ api_pc' = "returned"
                /\ UNCHANGED <<last_err, raised>>
           ELSE IF Caught(err)
           THEN /\ api_pc' = "sleep"
                /\ last_err' = err
                /\ UNCHANGED raised
           ELSE /\ api_pc' = "raised"
                /\ raised' = err
                /\ UNCHANGED last_err
    /\ UNCHANGED <<pc, file, suricata_df, api_key, remote, local_file, vulns,
                   source_label, result, actions, printed, served>>

\* time.sleep(0.1), then the next iteration, or the raise after the loop.
CallApiSleep ==
    /\ api_pc = "sleep"
    /\ IF HasNext(attempts)
       THEN /\ api_pc' = "loop"
            /\ UNCHANGED raised
       ELSE /\ api_pc' = "raised"
            /\ raised' = "RuntimeError"
    /\ UNCHANGED <<pc, file, suricata_df, api_key, remote, local_file, vulns,
                   source_label, result, actions, printed, attempts, last_err,
                   served>>

CallApi ==
    \/ \E answer \in Answers : CallApiAttempt(answer)
    \/ CallApiSleep

NextApi ==
    \/ CallApi
    \/ \E path \in Paths, client_key \in ClientKeys : HandleGET(path, client_key)

\* call_api is straight-line blocking code: every request has a timeout and
\* every sleep ends, so a step that is possible is taken.
SpecApi == InitApi /\ [][NextApi]_vars /\ WF_vars(CallApi)

(***************************************************************************)
(* Properties of the event pipeline                                        *)
(***************************************************************************)
Analyzed == pc \in {"analyzed", "responded"}

Rows == suricata_df.rows

\* Number of loaded events of type t whose source address is a.
Events(t, a) ==
    Cardinality({i \in 1..Len(Rows) : Rows[i].event_type = t /\ Rows[i].src_ip = a})

Entry(i) == result.suspicious[i]

\* C1: in every entry analyze() produces, risk_score is
\* high_severity_alert_count*5 + alert_count*2, plus 3 when dns_query_count
\* is at least 6, computed from the counts of that entry.
C1_RiskScoreFormula ==
    Analyzed =>
        \A i \in 1..Len(result.suspicious) :
            Entry(i).risk_score =
                Entry(i).high_severity_alert_count * 5 + Entry(i).alert_count * 2
                    + (IF Entry(i).dns_query_count >= 6 THEN 3 ELSE 0)

\* Scenario B: six dns events and no alert of one address score 3, and the
\* address is no threat.
C1_Witness ==
    /\ Analyzed
    /\ \E i \in 1..Len(result.suspicious) :
           /\ Entry(i).dns_query_count = 6
           /\ Entry(i).alert_count = 0
           /\ Entry(i).risk_score = 3
           /\ ~InSeq(Entry(i), result.threats)

WellFormed(line) == line.kind = "event"

\* C2: load_suricata_events() drops the malformed lines only: it never
\* raises, and it returns one record for every well-formed non-blank line.
C2_MalformedLineSkipped ==
    pc # "input" =>
        /\ pc # "load_raised"
        /\ Len(Rows) = Cardinality({i \in 1..Len(file) : WellFormed(file[i])})

\* C3: a source without events runs through load, analyze and
\* simulate_response without an error, with empty statistics, no threats,
\* no decisions and all event counts zero.
C3_EmptyRunCompletes ==
    (pc \notin {"input", "loaded"} /\ \A i \in 1..Len(file) : file[i].kind = "blank") =>
        /\ raised = ""
        /\ Analyzed
        /\ result.suspicious = <<>>
        /\ result.threats = <<>>
        /\ actions = <<>>
        /\ result.stats.suricata_events = 0
        /\ result.stats.alert_events = 0
        /\ result.stats.dns_events = 0
        /\ result.stats.threat_ips = 0

\* Position of the entry of address a in the frame before sort_values.
Before(a) ==
    LET tbl == Suspicious(OfType(Rows, "alert"), OfType(Rows, "dns"))
    IN  CHOOSE i \in 1..Len(tbl) : tbl[i].src_ip = a

ThreatSettings == 3..7

\* C6: for every setting t of the threat threshold the threats are exactly
\* the entries with risk_score >= t, in the order of the statistics.
C6_ThreatsFollowThreshold ==
    Analyzed =>
        \A t \in ThreatSettings :
            result.threats = SelectSeq(result.suspicious, LAMBDA r : r.risk_score >= t)

Addresses == {AddrOrder[i] : i \in 1..Len(AddrOrder)}

Seen == {a \in Addresses : Events("alert", a) + Events("dns", a) > 0}

\* C7: analyze() produces exactly one entry for each source address that is
\* present in an alert or dns event, none for any other address, and its
\* alert_count and dns_query_count are the numbers of those events.
C7_OneEntryPerAddress ==
    Analyzed =>
        /\ {Entry(i).src_ip : i \in 1..Len(result.suspicious)} = Seen
        /\ Len(result.suspicious) = Cardinality(Seen)
        /\ \A i \in 1..Len(result.suspicious) :
               /\ Entry(i).alert_count = Events("alert", Entry(i).src_ip)
               /\ Entry(i).dns_query_count = Events("dns", Entry(i).src_ip)

\* An address with dns events only next to one with alerts only, an event of
\* another type and an event without source address.
C7_Witness ==
    /\ Analyzed
    /\ Len(result.suspicious) = 2
    /\ \E i, j \in 1..2 :
           /\ Entry(i).alert_count = 0 /\ Entry(i).dns_query_count > 0
           /\ Entry(j).alert_count > 0 /\ Entry(j).dns_query_count = 0
    /\ \E i \in 1..Len(Rows) : Rows[i].event_type = "flow"
    /\ \E i \in 1..Len(Rows) : Rows[i].src_ip = None /\ Rows[i].event_type # "flow"

\* Number of loaded alerts of address a with a severity of at most 2.
HighAlerts(a) ==
    Cardinality({i \in 1..Len(Rows) :
        /\ Rows[i].event_type = "alert" /\ Rows[i].src_ip = a
        /\ Rows[i].severity # <<>> /\ Rows[i].severity[1] <= 2})

\* C8: in every entry high_severity_alert_count is the number of the
\* address's alerts with severity <= 2, alerts without severity not counted,
\* and it is at most alert_count.
C8_HighSeverityAtMostAlerts ==
    Analyzed =>
        \A i \in 1..Len(result.suspicious) :
            /\ Entry(i).high_severity_alert_count <= Entry(i).alert_count
            /\ Entry(i).high_severity_alert_count = HighAlerts(Entry(i).src_ip)

\* An address with a high-severity alert and an alert without severity.
C8_Witness ==
    /\ Analyzed
    /\ \E i \in 1..Len(result.suspicious) :
           /\ Entry(i).high_severity_alert_count = 1
           /\ Entry(i).alert_count = 2
           /\ \E k \in 1..Len(Rows) :
                  /\ Rows[k].event_type = "alert" /\ Rows[k].src_ip = Entry(i).src_ip
                  /\ Rows[k].severity = <<>>

Channels == (ChatIds \cup Emails) \ {""}

\* C9: simulate_response() returns one decision per threat, in the order of
\* the threats, with the threat's address and score, simulated_block true
\* and a notification naming both; no threats give no decisions, and no
\* notification channel shows in a decision.
C9_OneDecisionPerThreat ==
    pc = "responded" =>
        /\ Len(actions) = Len(result.threats)
        /\ \A i \in 1..Len(actions) :
               /\ actions[i].src_ip = result.threats[i].src_ip
               /\ actions[i].risk_score = result.threats[i].risk_score
               /\ actions[i].simulated_block = TRUE
               /\ InSeq(result.threats[i].src_ip, actions[i].notification)
               /\ InSeq(ToString(result.threats[i].risk_score), actions[i].notification)
               /\ \A c \in Channels : ~InSeq(c, actions[i].notification)

\* Two threats answered while both notification channels are configured.
C9_Witness ==
    /\ pc = "responded"
    /\ Len(actions) = 2
    /\ actions[1].src_ip # actions[2].src_ip
    /\ \E k \in 1..Len(printed) : InSeq("4242", printed[k])
    /\ \E k \in 1..Len(printed) : InSeq("soc@example.org", printed[k])

\* No threat among the statistics: no decision, and no error.
C9_EmptyWitness ==
    /\ pc = "responded"
    /\ result.suspicious # <<>>
    /\ result.threats = <<>>
    /\ actions = <<>>

(***************************************************************************)
(* Properties of fetch_vulners_data                                        *)
(***************************************************************************)
Fetched == pc \in {"fetched", "fetch_raised"}

LocalReadable == local_file.state = "ok"

Credential == api_key \notin {"", "  "}

BrokenDocs == {DocNullV3, DocTextScore, DocNumberCvss, DocString}

\* The remote source failed: no credential, a network or HTTP error, a
\* malformed payload, or no document.
RemoteFailed ==
    \/ ~Credential
    \/ remote.kind \in {"connection_error", "timeout", "http_error", "not_json",
                        "not_dict", "data_null", "no_search"}
    \/ remote.docs = <<>>
    \/ \E i \in 1..Len(remote.docs) : remote.docs[i] \in BrokenDocs

\* C5: with a readable local file fetch_vulners_data() never raises; on
\* every failure of the remote source it returns the local records under
\* the local label, and it returns remote records under the remote label
\* only with a credential and at least one document returned.
C5_FallbackWithoutRaising ==
    (Fetched /\ LocalReadable) =>
        /\ pc = "fetched"
        /\ raised = ""
        /\ source_label \in {"vulners_api", "local_vulners_sample"}
        /\ RemoteFailed => source_label = "local_vulners_sample"
        /\ source_label = "local_vulners_sample" => vulns = local_file.data
        /\ source_label = "vulners_api" =>
               /\ Credential
               /\ remote.kind = "docs"
               /\ Len(remote.docs) >= 1
               /\ Len(vulns) = Len(remote.docs)

\* Scenario E: a credential is configured and the remote source returns no
\* document; the local records come back.
C5_Witness ==
    /\ pc = "fetched"
    /\ Credential
    /\ remote = [kind |-> "docs", docs |-> <<>>]
    /\ source_label = "local_vulners_sample"
    /\ vulns = LocalSample

\* The remote records come back.
C5_RemoteWitness ==
    /\ pc = "fetched"
    /\ source_label = "vulners_api"
    /\ vulns = <<Vuln("CVE-2", <<70>>), Vuln("unknown", <<0>>)>>

(***************************************************************************)
(* Properties of call_api                                                  *)
(***************************************************************************)
ApiDone == api_pc \in {"returned", "raised"}

\* At most 10 attempts; RuntimeError only after 10 failed attempts, with the
\* last error kept.
C10_Budget ==
    /\ attempts <= 10
    /\ (api_pc = "raised" /\ raised = "RuntimeError") =>
           (attempts = 10 /\ Caught(last_err))
    /\ api_pc = "sleep" => Caught(last_err)

\* Steps of call_api: nothing follows the return or the raise; a URL or HTTP
\* error leads to the pause; the pause leads to the next attempt while fewer
\* than 10 were made, and to RuntimeError after the 10th.
C10_Step ==
    /\ ApiDone => (api_pc' = api_pc /\ attempts' = attempts)
    /\ (api_pc = "loop" /\ api_pc' = "sleep") =>
           (attempts' = attempts + 1 /\ last_err' \in {"URLError", "HTTPError 401", "HTTPError 404"})
    /\ (api_pc = "loop" /\ api_pc' = "returned") => last_err' = last_err
    /\ (api_pc = "sleep" /\ api_pc' # "sleep") =>
           IF attempts < 10
           THEN api_pc' = "loop" /\ attempts' = attempts
           ELSE api_pc' = "raised" /\ raised' = "RuntimeError"

\* C10: call_api() makes at most 10 attempts and always terminates: it
\* returns on the first successful attempt, retries after a pause an attempt
\* that failed with a URL or HTTP error (401 and 404 included), and raises
\* RuntimeError with the last error after the 10th failure.
C10_BoundedRetry ==
    /\ []C10_Budget
    /\ [][C10_Step]_vars
    /\ <>ApiDone
    /\ \A e \in {"URLError", "HTTPError 401", "HTTPError 404"} :
           (api_pc = "sleep" /\ last_err = e) ~> (api_pc \in {"loop", "raised"})

\* All 10 attempts failed, the last one with a 404 answer.
C10_Witness ==
    /\ api_pc = "raised"
    /\ raised = "RuntimeError"
    /\ attempts = 10
    /\ last_err = "HTTPError 404"

\* A success on the third attempt after a 401 answer.
C10_ReturnWitness ==
    /\ api_pc = "returned"
    /\ attempts = 3
    /\ last_err = "HTTPError 401"

====
